---------------------------- MODULE Spec2Model ----------------------------
(***************************************************************************)
(* Model of src/lambda/s3_upload_logger.py: the S3 upload logger Lambda.   *)
(*                                                                         *)
(*   lambda_handler   lines 22-104   the per-batch record loop             *)
(*   format_size      lines 107-126  bytes -> human readable string        *)
(*   categorize_file  lines 129-152  extension -> category                 *)
(*                                                                         *)
(* and of create_bucket, lines 38-94 of src/boto3-scripts/s3_operations.py.*)
(*                                                                         *)
(* Strings are TLA+ strings, one character per position.  The module's    *)
(* parser accepts ASCII only, so the one non-ASCII character the model     *)
(* needs, U+017F LATIN SMALL LETTER LONG S, is written "$" (see U017F).    *)
(***************************************************************************)
EXTENDS Integers, Sequences, FiniteSets, TLC

VARIABLES
  \* ---- categorize_file driver
  cat_calls,      \* the extensions categorize_file is called with, in order
  cat_results,    \* the values it returned so far
  \* ---- format_size, one invocation, statement by statement
  fs_arg,         \* the argument size_bytes as passed by the caller
  fs_pc,          \* position in format_size
  fs_size,        \* the local size_bytes (reassigned by the loop)
  fs_i,           \* the local i
  fs_ret,         \* the returned string
  \* ---- lambda_handler, one invocation
  environ,            \* os.environ: PROJECT_NAME and ENVIRONMENT
  event,              \* the argument event
  pc,                 \* position in lambda_handler
  project_name,       \* local, line 33
  environment,        \* local, line 34
  records,            \* the sequence the for loop of line 42 iterates
  idx,                \* how many of its items the loop has consumed
  log_entry,          \* local, lines 53-64 (of the latest record that built it)
  processed_records,  \* local, line 39
  response,           \* local, lines 94-101, the value returned
  exception,          \* the message of the exception that reached the caller
  log,                \* what the module-level logger has emitted, in order
  \* ---- lambda_handler, several invocations
  calls,              \* how many invocations have been started, one at a time
  inv,                \* the frames of the invocations running side by side
  \* ---- create_bucket, one call
  cb_pc,              \* position in create_bucket
  cb_bucket_name,     \* the argument bucket_name
  cb_exists,          \* S3: the bucket exists and this account owns it
  cb_error,           \* the Code of the ClientError being handled, "" if none
  cb_ret,             \* the value returned: "True", "False", "" before return
  cb_out              \* what the function has printed, in order

cat_vars == <<cat_calls, cat_results>>
fs_vars == <<fs_arg, fs_pc, fs_size, fs_i, fs_ret>>
h_vars == <<environ, event, pc, project_name, environment, records, idx,
            log_entry, processed_records, response, exception, log>>
run_vars == <<calls, inv>>
cb_vars == <<cb_pc, cb_bucket_name, cb_exists, cb_error, cb_ret, cb_out>>
vars == <<cat_calls, cat_results, fs_arg, fs_pc, fs_size, fs_i, fs_ret,
          environ, event, pc, project_name, environment, records, idx,
          log_entry, processed_records, response, exception, log,
          calls, inv,
          cb_pc, cb_bucket_name, cb_exists, cb_error, cb_ret, cb_out>>

-----------------------------------------------------------------------------
(***************************************************************************)
(* Python str operations used by the source.                               *)
(***************************************************************************)

UpperLetters == "ABCDEFGHIJKLMNOPQRSTUVWXYZ"
LowerLetters == "abcdefghijklmnopqrstuvwxyz"

\* U+017F LATIN SMALL LETTER LONG S.  It is a lower-case letter: str.lower()
\* leaves it alone, and str.upper() maps it to "S".
U017F == "$"

CharAt(s, j) == SubSeq(s, j, j)

PosIn(c, alphabet) ==
  IF \E j \in 1..Len(alphabet) : CharAt(alphabet, j) = c
  THEN CHOOSE j \in 1..Len(alphabet) : CharAt(alphabet, j) = c
  ELSE 0

\* str.lower() on one character
lower_char(c) ==
  IF PosIn(c, UpperLetters) > 0 THEN CharAt(LowerLetters, PosIn(c, UpperLetters))
  ELSE c

\* str.upper() on one character
upper_char(c) ==
  IF PosIn(c, LowerLetters) > 0 THEN CharAt(UpperLetters, PosIn(c, LowerLetters))
  ELSE IF c = U017F THEN "S"
  ELSE c

RECURSIVE lower(_)
lower(s) ==
  IF s = "" THEN "" ELSE lower_char(CharAt(s, 1)) \o lower(SubSeq(s, 2, Len(s)))

RECURSIVE upper(_)
upper(s) ==
  IF s = "" THEN "" ELSE upper_char(CharAt(s, 1)) \o upper(SubSeq(s, 2, Len(s)))

\* str.capitalize(): first character upper-cased, the rest lower-cased
capitalize(s) ==
  IF s = "" THEN "" ELSE upper_char(CharAt(s, 1)) \o lower(SubSeq(s, 2, Len(s)))

\* a mixed re-casing: the last character upper-cased, the rest lower-cased
mixed_case(s) ==
  IF s = "" THEN ""
  ELSE lower(SubSeq(s, 1, Len(s) - 1)) \o upper_char(CharAt(s, Len(s)))

\* Python `x in list`
InList(x, list) == \E j \in 1..Len(list) : list[j] = x

-----------------------------------------------------------------------------
(***************************************************************************)
(* categorize_file (lines 129-152)                                         *)
(***************************************************************************)

\* a bug that lists 'svg' under data as well as under image
categories_overlapping ==
  << [category |-> "resume",
      extensions |-> <<"pdf", "doc", "docx", "txt", "rtf", "odt">>],
     [category |-> "image",
      extensions |-> <<"jpg", "jpeg", "png", "gif", "webp", "svg", "bmp", "ico">>],
     [category |-> "data",
      extensions |-> <<"csv", "xlsx", "xls", "json", "xml", "yaml", "yml", "svg">>],
     [category |-> "archive",
      extensions |-> <<"zip", "tar", "gz", "rar", "7z">>],
     [category |-> "video",
      extensions |-> <<"mp4", "avi", "mov", "mkv", "webm">>],
     [category |-> "audio",
      extensions |-> <<"mp3", "wav", "flac", "aac", "ogg">>] >>

\* a bug that drops 'yml' from the data extensions and files 'gz' under data
categories_mut ==
  << [category |-> "resume",
      extensions |-> <<"pdf", "doc", "docx", "txt", "rtf", "odt">>],
     [category |-> "image",
      extensions |-> <<"jpg", "jpeg", "png", "gif", "webp", "svg", "bmp", "ico">>],
     [category |-> "data",
      extensions |-> <<"csv", "xlsx", "xls", "json", "xml", "yaml", "gz">>],
     [category |-> "archive",
      extensions |-> <<"zip", "tar", "gz", "rar", "7z">>],
     [category |-> "video",
      extensions |-> <<"mp4", "avi", "mov", "mkv", "webm">>],
     [category |-> "audio",
      extensions |-> <<"mp3", "wav", "flac", "aac", "ogg">>] >>

\* the dict `categories`, in insertion order (dicts iterate in that order)
categories ==
  << [category |-> "resume",
      extensions |-> <<"pdf", "doc", "docx", "txt", "rtf", "odt">>],
     [category |-> "image",
      extensions |-> <<"jpg", "jpeg", "png", "gif", "webp", "svg", "bmp", "ico">>],
     [category |-> "data",
      extensions |-> <<"csv", "xlsx", "xls", "json", "xml", "yaml", "yml">>],
     [category |-> "archive",
      extensions |-> <<"zip", "tar", "gz", "rar", "7z">>],
     [category |-> "video",
      extensions |-> <<"mp4", "avi", "mov", "mkv", "webm">>],
     [category |-> "audio",
      extensions |-> <<"mp3", "wav", "flac", "aac", "ogg">>] >>

\* a bug that compares the extension as given, without lower-casing it
extension_matches_nolower(extension, extensions) == InList(extension, extensions)

\* the test of line 149: extension.lower() in extensions
extension_matches(extension, extensions) == InList(lower(extension), extensions)

\* the for loop of lines 148-150 from the c-th item on, then line 152
RECURSIVE categorize_from(_, _)
categorize_from(extension, c) ==
  IF c > Len(categories) THEN "other"
  ELSE IF extension_matches(extension, categories[c].extensions)
       THEN categories[c].category
       ELSE categorize_from(extension, c + 1)

categorize_file(extension) == categorize_from(extension, 1)

-----------------------------------------------------------------------------
(***************************************************************************)
(* Python values at the leaves of an event.  Every value is a record of    *)
(* one shape:                                                              *)
(*   k  the type: "absent" (the key is missing), "null" (None), "str",     *)
(*      "int" or "float"                                                   *)
(*   s  the characters of a str                                            *)
(*   n  the integer part of a number, in base-1024 digits, least           *)
(*      significant first, without leading zeros (0 is <<>>)               *)
(*   f  the fraction of a float, in base-1024 digits, most significant     *)
(*      first                                                              *)
(* Numbers are non-negative.  A number is held exactly; Python holds a     *)
(* float exactly up to 2^53, which ExactlyRepresentable states.            *)
(***************************************************************************)

Absent == [k |-> "absent", s |-> "", n |-> <<>>, f |-> <<>>]
PyNone == [k |-> "null", s |-> "", n |-> <<>>, f |-> <<>>]
PyStr(s) == [k |-> "str", s |-> s, n |-> <<>>, f |-> <<>>]
PyInt(digits) == [k |-> "int", s |-> "", n |-> digits, f |-> <<>>]

IsNumber(v) == v.k \in {"int", "float"}

\* an int below 2^53 = 8 * 1024^5: int / 1024 is then exact in a float
ExactlyRepresentable(digits) ==
  Len(digits) < 6 \/ (Len(digits) = 6 /\ digits[6] < 8)

\* value of a short digit sequence as a TLA+ integer
RECURSIVE DigitsValue(_)
DigitsValue(digits) ==
  IF digits = <<>> THEN 0 ELSE Head(digits) + 1024 * DigitsValue(Tail(digits))

-----------------------------------------------------------------------------
(***************************************************************************)
(* format_size (lines 107-126)                                             *)
(***************************************************************************)

size_names == <<"B", "KB", "MB", "GB", "TB">>

\* line 117, size_bytes == 0: an int or float equal to zero; any other
\* type compares unequal without raising
equals_zero(v) == IsNumber(v) /\ v.n = <<>> /\ \A j \in 1..Len(v.f) : v.f[j] = 0

\* size_bytes >= 1024 raises TypeError unless size_bytes is a number
compare_raises(v) == ~IsNumber(v)

\* size_bytes >= 1024
ge_1024(v) == Len(v.n) >= 2

\* a bug that drops the bound on the unit index
loop_continues_unbounded(v, i) == ge_1024(v)

\* the while condition of line 122
loop_continues(v, i) == ge_1024(v) /\ i < Len(size_names) - 1

\* line 123, size_bytes /= 1024: true division, the result is a float
div_1024(v) ==
  [k |-> "float", s |-> "",
   n |-> IF v.n = <<>> THEN <<>> ELSE Tail(v.n),
   f |-> <<IF v.n = <<>> THEN 0 ELSE Head(v.n)>> \o v.f]

\* 100 * (fraction f): carry is its integer part, rest the fraction left
RECURSIVE TimesHundred(_)
TimesHundred(f) ==
  IF f = <<>> THEN [carry |-> 0, rest |-> <<>>]
  ELSE LET r == TimesHundred(Tail(f))
           t == 100 * Head(f) + r.carry
       IN  [carry |-> t \div 1024, rest |-> <<t % 1024>> \o r.rest]

\* a fraction compared with one half: -1 below, 0 equal, 1 above
CompareHalf(f) ==
  IF f = <<>> THEN -1
  ELSE IF Head(f) > 512 THEN 1
  ELSE IF Head(f) < 512 THEN -1
  ELSE IF \E j \in 2..Len(f) : f[j] # 0 THEN 1
  ELSE 0

\* a bug that rounds an exact tie upwards
rounds_up_half_up(rest, cents) == CompareHalf(rest) >= 0

\* the ".2f" conversion rounds the exact value to the nearest hundredth,
\* an exact tie to the even one
rounds_up(rest, cents) ==
  CompareHalf(rest) = 1 \/ (CompareHalf(rest) = 0 /\ cents % 2 = 1)

TwoDigits(c) == IF c < 10 THEN "0" \o ToString(c) ELSE ToString(c)

\* f"{size_bytes:.2f}" of a number
format_2f(v) ==
  LET m == TimesHundred(v.f)
      h == m.carry + (IF rounds_up(m.rest, m.carry) THEN 1 ELSE 0)
      q == DigitsValue(v.n) + h \div 100
  IN  ToString(q) \o "." \o TwoDigits(h % 100)

\* lines 122-126 from the loop test on: the outcome of the call
RECURSIVE format_size_loop(_, _)
format_size_loop(v, i) ==
  IF compare_raises(v) THEN [raised |-> "TypeError", value |-> ""]
  ELSE IF loop_continues(v, i) THEN format_size_loop(div_1024(v), i + 1)
  ELSE IF i + 1 > Len(size_names) THEN [raised |-> "IndexError", value |-> ""]
  ELSE [raised |-> "", value |-> format_2f(v) \o " " \o size_names[i + 1]]

\* format_size(size_bytes): what it returns, or the exception it raises
format_size(size_bytes) ==
  IF equals_zero(size_bytes) THEN [raised |-> "", value |-> "0 B"]
  ELSE format_size_loop(size_bytes, 0)

(***************************************************************************)
(* format_size statement by statement.                                     *)
(***************************************************************************)

\* lines 117-121
FsEntry ==
  /\ fs_pc = "l117"
  /\ IF equals_zero(fs_size)
     THEN /\ fs_pc' = "done"
          /\ fs_ret' = "0 B"
          /\ fs_i' = fs_i
     ELSE /\ fs_pc' = "l122"
          /\ fs_i' = 0
          /\ fs_ret' = fs_ret
  /\ UNCHANGED <<fs_arg, fs_size, cat_vars, h_vars, run_vars, cb_vars>>

\* line 122 with a size_bytes that cannot be compared with 1024
FsCompareRaises ==
  /\ fs_pc = "l122"
  /\ compare_raises(fs_size)
  /\ fs_pc' = "TypeError"
  /\ UNCHANGED <<fs_arg, fs_size, fs_i, fs_ret, cat_vars, h_vars, run_vars, cb_vars>>

\* lines 122-124: the loop test holds and the body runs once
FsLoopBody ==
  /\ fs_pc = "l122"
  /\ ~compare_raises(fs_size)
  /\ loop_continues(fs_size, fs_i)
  /\ fs_size' = div_1024(fs_size)
  /\ fs_i' = fs_i + 1
  /\ UNCHANGED <<fs_arg, fs_pc, fs_ret, cat_vars, h_vars, run_vars, cb_vars>>

\* line 122 fails, line 126 returns (size_names[i] raises IndexError out of range)
FsReturn ==
  /\ fs_pc = "l122"
  /\ ~compare_raises(fs_size)
  /\ ~loop_continues(fs_size, fs_i)
  /\ IF fs_i + 1 > Len(size_names)
     THEN /\ fs_pc' = "IndexError"
          /\ fs_ret' = fs_ret
     ELSE /\ fs_pc' = "done"
          /\ fs_ret' = format_2f(fs_size) \o " " \o size_names[fs_i + 1]
  /\ UNCHANGED <<fs_arg, fs_size, fs_i, cat_vars, h_vars, run_vars, cb_vars>>

-----------------------------------------------------------------------------
(***************************************************************************)
(* Events.  A dict of the event is a record with k = "dict" and one field  *)
(* per key the handler reads; a key that is missing holds Absent.  A value *)
(* of another type in the place of a dict is a leaf value (PyNone, PyStr,  *)
(* PyInt).  A list is [k |-> "list", items |-> <<...>>].                   *)
(*                                                                         *)
(*   event   {Records}                                                     *)
(*   record  {eventTime, eventName, s3, requestParameters, userIdentity}   *)
(*   s3 {bucket, object}   bucket {name}   object {key, size}              *)
(*   requestParameters {sourceIPAddress}   userIdentity {principalId}      *)
(***************************************************************************)

IsDict(v) == v.k = "dict"

\* type(v).__name__
TypeName(v) ==
  CASE v.k = "null" -> "NoneType"
    [] v.k = "str" -> "str"
    [] v.k = "int" -> "int"
    [] v.k = "float" -> "float"
    [] v.k = "list" -> "list"
    [] OTHER -> "dict"

Event(recs) == [k |-> "dict", Records |-> recs]
PyList(items) == [k |-> "list", items |-> items]
Record(eventTime, eventName, s3, requestParameters, userIdentity) ==
  [k |-> "dict", eventTime |-> eventTime, eventName |-> eventName, s3 |-> s3,
   requestParameters |-> requestParameters, userIdentity |-> userIdentity]
S3Info(bucket, object) == [k |-> "dict", bucket |-> bucket, object |-> object]
Bucket(name) == [k |-> "dict", name |-> name]
Object(key, size) == [k |-> "dict", key |-> key, size |-> size]
RequestParameters(ip) == [k |-> "dict", sourceIPAddress |-> ip]
UserIdentity(principal) == [k |-> "dict", principalId |-> principal]

\* the default {} of each .get(..., {})
EmptyS3 == S3Info(Absent, Absent)
EmptyBucket == Bucket(Absent)
EmptyObject == Object(Absent, Absent)
EmptyRequestParameters == RequestParameters(Absent)
EmptyUserIdentity == UserIdentity(Absent)

\* a bug that forgets the default: d.get(key) gives None for a missing key
dict_get_without_default(d, key, default) ==
  IF d[key].k = "absent" THEN PyNone ELSE d[key]

\* d.get(key, default) on a dict d
dict_get(d, key, default) == IF d[key].k = "absent" THEN default ELSE d[key]

\* the message of the AttributeError of v.get on a v that is no dict
no_get_message(v) == "'" \o TypeName(v) \o "' object has no attribute 'get'"

\* json.dumps(x, indent=2): the JSON text of x
json_dumps(x) == [json_text_of |-> x]

\* one logger call: logger.info(f"...") or logger.error(f"..."), the
\* f-string as its text with {} for each value it interpolates
LogLine(level, text, args) == [level |-> level, text |-> text, args |-> args]
Info(text, args) == LogLine("INFO", text, args)
Error(text, args) == LogLine("ERROR", text, args)

Banner == Info("============================================================", <<>>)

\* '.' in object_key, for a str
contains_dot(s) == \E j \in 1..Len(s) : CharAt(s, j) = "."

\* object_key.split('.')[-1], for a str holding a '.'
last_segment(s) ==
  LET last == CHOOSE j \in 1..Len(s) :
                 /\ CharAt(s, j) = "."
                 /\ \A m \in (j + 1)..Len(s) : CharAt(s, m) # "."
  IN  SubSeq(s, last + 1, Len(s))

\* a bug that takes the segment after the first '.'
file_extension_first_dot(object_key) ==
  IF contains_dot(object_key)
  THEN LET first == CHOOSE j \in 1..Len(object_key) :
                       /\ CharAt(object_key, j) = "."
                       /\ \A m \in 1..(j - 1) : CharAt(object_key, m) # "."
       IN lower(SubSeq(object_key, first + 1, Len(object_key)))
  ELSE "unknown"

\* a bug that drops the test for a '.': split('.')[-1] of a key without one
\* is the whole key
file_extension_whole_key(object_key) ==
  IF contains_dot(object_key) THEN lower(last_segment(object_key))
  ELSE lower(object_key)

\* line 78, for a str object_key
file_extension_of(object_key) ==
  IF contains_dot(object_key) THEN lower(last_segment(object_key)) ELSE "unknown"

-----------------------------------------------------------------------------
(***************************************************************************)
(* lambda_handler (lines 22-104)                                           *)
(***************************************************************************)

\* a local that is not bound yet
Unbound == [k |-> "unbound"]

\* values datetime.now().isoformat() may return
NowValues == {"2024-12-01T12:00:05.123456", "2024-12-01T12:00:05.987654"}

\* os.environ.get(name, default)
environ_get(name, default) ==
  IF environ[name].k = "absent" THEN default ELSE environ[name].s

\* lines 45-48: the message of the exception the extraction raises, "" if none
extraction_error(record) ==
  IF ~IsDict(record) THEN no_get_message(record)
  ELSE LET s3_info == dict_get(record, "s3", EmptyS3) IN
  IF ~IsDict(s3_info) THEN no_get_message(s3_info)
  ELSE LET bucket == dict_get(s3_info, "bucket", EmptyBucket)
           object == dict_get(s3_info, "object", EmptyObject) IN
  IF ~IsDict(bucket) THEN no_get_message(bucket)
  ELSE IF ~IsDict(object) THEN no_get_message(object)
  ELSE ""

\* lines 61-63: the message of the exception building log_entry raises
log_entry_error(record, object_size) ==
  LET readable == format_size(object_size)
      params == dict_get(record, "requestParameters", EmptyRequestParameters)
      identity == dict_get(record, "userIdentity", EmptyUserIdentity) IN
  IF readable.raised = "TypeError"
  THEN "'>=' not supported between instances of '" \o TypeName(object_size)
         \o "' and 'int'"
  ELSE IF readable.raised # "" THEN "tuple index out of range"
  ELSE IF ~IsDict(params) THEN no_get_message(params)
  ELSE IF ~IsDict(identity) THEN no_get_message(identity)
  ELSE ""

\* what one pass through the try block of lines 43-88 does
Outcome(raised, lines, entry_built, built, appended) ==
  [raised |-> raised, lines |-> lines, log_entry |-> built,
   log_entry_bound |-> entry_built, appended |-> appended]

\* a bug that appends the entry although the record failed at line 78
key_failure_appends(bucket_name, object_key) ==
  <<[bucket |-> bucket_name, key |-> object_key, category |-> "other"]>>

\* line 78 raised: nothing is appended
key_failure(bucket_name, object_key) == <<>>

\* the try block of lines 43-88 for one record; now is datetime.now().isoformat()
try_block(record, project, env, now) ==
  IF extraction_error(record) # ""
  THEN Outcome(extraction_error(record), <<>>, FALSE, Unbound, <<>>)
  ELSE
  LET s3_info == dict_get(record, "s3", EmptyS3)
      bucket_name == dict_get(dict_get(s3_info, "bucket", EmptyBucket),
                              "name", PyStr("Unknown"))
      object_key == dict_get(dict_get(s3_info, "object", EmptyObject),
                             "key", PyStr("Unknown"))
      object_size == dict_get(dict_get(s3_info, "object", EmptyObject),
                              "size", PyInt(<<>>))
      event_time == dict_get(record, "eventTime", PyStr(now))
      event_name == dict_get(record, "eventName", PyStr("Unknown"))
  IN
  IF log_entry_error(record, object_size) # ""
  THEN Outcome(log_entry_error(record, object_size), <<>>, FALSE, Unbound, <<>>)
  ELSE
  LET built ==
        [timestamp |-> event_time,
         project |-> PyStr(project),
         environment |-> PyStr(env),
         event_type |-> event_name,
         bucket |-> bucket_name,
         object_key |-> object_key,
         object_size_bytes |-> object_size,
         object_size_readable |-> PyStr(format_size(object_size).value),
         source_ip |->
           dict_get(dict_get(record, "requestParameters", EmptyRequestParameters),
                    "sourceIPAddress", PyStr("Unknown")),
         user_identity |->
           dict_get(dict_get(record, "userIdentity", EmptyUserIdentity),
                    "principalId", PyStr("Unknown"))]
      \* lines 67-75
      details ==
        << Banner,
           Info("S3 UPLOAD EVENT DETAILS", <<>>),
           Banner,
           Info("Timestamp: {}", <<built.timestamp>>),
           Info("Bucket: {}", <<built.bucket>>),
           Info("Object Key: {}", <<built.object_key>>),
           Info("Size: {} ({} bytes)",
                <<built.object_size_readable, built.object_size_bytes>>),
           Info("Event Type: {}", <<built.event_type>>),
           Info("Source IP: {}", <<built.source_ip>>) >>
  IN
  \* line 78: '.' in object_key raises TypeError unless object_key is a str
  IF object_key.k # "str"
  THEN Outcome("argument of type '" \o TypeName(object_key) \o "' is not iterable",
               details, TRUE, built, key_failure(bucket_name, object_key))
  ELSE
  LET file_extension == file_extension_of(object_key.s)
      file_category == categorize_file(file_extension)
  IN  Outcome("",
              details \o
                << Info("File Category: {}", <<PyStr(file_category)>>),
                   Info("File Extension: {}", <<PyStr(file_extension)>>),
                   Banner >>,
              TRUE, built,
              <<[bucket |-> bucket_name, key |-> object_key,
                 category |-> file_category]>>)

\* a bug that logs the message of the exception but not the record
except_block_message_only(message, record) ==
  IF message = "" THEN <<>>
  ELSE << Error("Error processing record: {}", <<PyStr(message)>>) >>

\* a bug that swallows the exception without logging it
except_block_silent(message, record) == <<>>

\* lines 90-92
except_block(message, record) ==
  IF message = "" THEN <<>>
  ELSE << Error("Error processing record: {}", <<PyStr(message)>>),
          Error("Record: {}", <<json_dumps(record)>>) >>

\* a bug that reports failure when nothing was processed
build_response_status_by_count(processed) ==
  [statusCode |-> IF processed = <<>> THEN 500 ELSE 200,
   body |-> json_dumps([message |-> "S3 upload event(s) logged successfully",
                        records_processed |-> Len(processed),
                        details |-> processed])]

\* lines 94-101
build_response(processed) ==
  [statusCode |-> 200,
   body |-> json_dumps([message |-> "S3 upload event(s) logged successfully",
                        records_processed |-> Len(processed),
                        details |-> processed])]

\* a bug that appends every entry twice
append_entry_twice(processed, appended) == processed \o appended \o appended

\* a bug that puts the newest entry first
append_entry_in_front(processed, appended) == appended \o processed

\* line 84: processed_records.append(...)
append_entry(processed, appended) == processed \o appended

\* what iterating a value yields: the items of a list, the characters of a str
iteration_of(v) ==
  IF v.k = "list" THEN v.items
  ELSE [j \in 1..Len(v.s) |-> PyStr(CharAt(v.s, j))]

IsIterable(v) == v.k \in {"list", "str"}

\* a bug that defaults a missing Records to None
records_default_none == PyNone

\* the default of event.get('Records', [])
records_default == PyList(<<>>)

\* a bug that writes new lines ahead of the earlier ones
logger_emit_in_front(stream, lines) == lines \o stream

\* logger.info / logger.error: the lines are added at the end of the stream
logger_emit(stream, lines) == stream \o lines

\* a bug that keeps one list for all invocations
same_list == processed_records

\* line 39: a new empty list in every invocation
empty_list == <<>>

\* lines 33-39
HandlerEntry ==
  /\ pc = "l33"
  /\ project_name' = environ_get("PROJECT_NAME", "job-portal")
  /\ environment' = environ_get("ENVIRONMENT", "dev")
  /\ log' = logger_emit(log,
               << Info("[{}] S3 Upload Event Received", <<PyStr(project_name')>>),
                  Info("Full Event: {}", <<json_dumps(event)>>) >>)
  /\ processed_records' = empty_list
  /\ pc' = "l42"
  /\ UNCHANGED <<environ, event, records, idx, log_entry, response, exception,
                 cat_vars, fs_vars,
                 run_vars, cb_vars>>

\* line 42, entering the loop: event.get('Records', []) is iterable
ForEnter ==
  /\ pc = "l42"
  /\ IsDict(event)
  /\ IsIterable(dict_get(event, "Records", records_default))
  /\ records' = iteration_of(dict_get(event, "Records", records_default))
  /\ idx' = 0
  /\ pc' = "loop"
  /\ UNCHANGED <<environ, event, project_name, environment, log_entry,
                 processed_records, response, exception, log, cat_vars, fs_vars,
                 run_vars, cb_vars>>

\* line 42 raises: event has no .get, or the Records value is not iterable
ForEnterRaises ==
  /\ pc = "l42"
  /\ \/ /\ ~IsDict(event)
        /\ exception' = no_get_message(event)
     \/ /\ IsDict(event)
        /\ ~IsIterable(dict_get(event, "Records", records_default))
        /\ exception' = "'" \o TypeName(dict_get(event, "Records", records_default))
                          \o "' object is not iterable"
  /\ pc' = "raised"
  /\ UNCHANGED <<environ, event, project_name, environment, records, idx,
                 log_entry, processed_records, response, log, cat_vars, fs_vars,
                 run_vars, cb_vars>>

\* lines 42-92 for the next record
ForRecord ==
  /\ pc = "loop"
  /\ idx < Len(records)
  /\ \E now \in NowValues :
       LET record == records[idx + 1]
           out == try_block(record, project_name, environment, now)
       IN  /\ log' = logger_emit(logger_emit(log, out.lines),
                                  except_block(out.raised, record))
           /\ log_entry' = IF out.log_entry_bound THEN out.log_entry ELSE log_entry
           /\ processed_records' = append_entry(processed_records, out.appended)
  /\ idx' = idx + 1
  /\ UNCHANGED <<environ, event, pc, project_name, environment, records,
                 response, exception, cat_vars, fs_vars,
                 run_vars, cb_vars>>

\* lines 94-104, after the loop has consumed every record
Respond ==
  /\ pc = "loop"
  /\ idx = Len(records)
  /\ response' = build_response(processed_records)
  /\ log' = logger_emit(log, <<Info("Lambda Response: {}",
                                    <<json_dumps(response')>>)>>)
  /\ pc' = "returned"
  /\ UNCHANGED <<environ, event, project_name, environment, records, idx,
                 log_entry, processed_records, exception, cat_vars, fs_vars,
                 run_vars, cb_vars>>

-----------------------------------------------------------------------------
(***************************************************************************)
(* The inputs the specifications draw from.                                *)
(***************************************************************************)

\* the longest batch of the record pool
MaxBatch == 3

\* the most base-1024 digits of a size_bytes (ExactlyRepresentable caps it)
MaxDigits == 6

\* the record of test_event (lines 158-180); 1024567 = 1000 * 1024 + 567
TestRecord ==
  Record(PyStr("2024-12-01T12:00:00.000Z"), PyStr("ObjectCreated:Put"),
         S3Info(Bucket(PyStr("job-portal-dev-files")),
                Object(PyStr("resumes/john_doe_resume.pdf"), PyInt(<<567, 1000>>))),
         RequestParameters(PyStr("192.168.1.100")),
         UserIdentity(PyStr("EXAMPLE123")))

\* no eventTime; a key with several dots and an upper-case extension; 1 MB
ArchiveRecord ==
  Record(Absent, PyStr("ObjectCreated:CompleteMultipartUpload"),
         S3Info(Bucket(PyStr("job-portal-dev-backups")),
                Object(PyStr("backups/2024.12/site.tar.GZ"), PyInt(<<0, 0, 1>>))),
         RequestParameters(PyStr("10.0.0.7")),
         UserIdentity(PyStr("AWS:AIDAEXAMPLE")))

\* a key without a dot, size 0, no requestParameters and no userIdentity
PlainRecord ==
  Record(PyStr("2024-12-02T08:30:00.000Z"), PyStr("ObjectCreated:Copy"),
         S3Info(Bucket(PyStr("job-portal-dev-files")),
                Object(PyStr("uploads/README"), PyInt(<<>>))),
         Absent, Absent)

\* the record {}
EmptyRecord == Record(Absent, Absent, Absent, Absent, Absent)

\* "s3": null
NullS3Record ==
  Record(PyStr("2024-12-01T12:00:01.000Z"), PyStr("ObjectCreated:Put"), PyNone,
         RequestParameters(PyStr("192.168.1.100")), UserIdentity(PyStr("EXAMPLE123")))

\* "size": "1024", a str
TextSizeRecord ==
  Record(PyStr("2024-12-01T12:00:02.000Z"), PyStr("ObjectCreated:Put"),
         S3Info(Bucket(PyStr("job-portal-dev-files")),
                Object(PyStr("images/logo.png"), PyStr("1024"))),
         RequestParameters(PyStr("192.168.1.100")), UserIdentity(PyStr("EXAMPLE123")))

\* "key": null
NullKeyRecord ==
  Record(PyStr("2024-12-01T12:00:03.000Z"), PyStr("ObjectCreated:Put"),
         S3Info(Bucket(PyStr("job-portal-dev-files")), Object(PyNone, PyInt(<<512>>))),
         RequestParameters(PyStr("192.168.1.100")), UserIdentity(PyStr("EXAMPLE123")))

\* "userIdentity": null
NullIdentityRecord ==
  Record(PyStr("2024-12-01T12:00:04.000Z"), PyStr("ObjectCreated:Put"),
         S3Info(Bucket(PyStr("job-portal-dev-files")),
                Object(PyStr("data/export.csv"), PyInt(<<1>>))),
         RequestParameters(PyStr("192.168.1.100")), PyNone)

\* a key without a '.' that spells a listed extension
BareWordRecord ==
  Record(PyStr("2024-12-01T12:00:05.000Z"), PyStr("ObjectCreated:Put"),
         S3Info(Bucket(PyStr("job-portal-dev-files")),
                Object(PyStr("pdf"), PyInt(<<1>>))),
         RequestParameters(PyStr("192.168.1.100")),
         UserIdentity(PyStr("EXAMPLE123")))

\* a key with two dots
TarGzRecord ==
  Record(PyStr("2024-12-01T12:00:06.000Z"), PyStr("ObjectCreated:Put"),
         S3Info(Bucket(PyStr("job-portal-dev-files")),
                Object(PyStr("a.tar.gz"), PyInt(<<0, 1>>))),
         RequestParameters(PyStr("192.168.1.100")),
         UserIdentity(PyStr("EXAMPLE123")))

\* the records batches are made of
RecordPool ==
  {TestRecord, ArchiveRecord, EmptyRecord, NullS3Record, NullKeyRecord}

\* further records, each tried as a batch of its own: PlainRecord, a record
\* that is null, a record that is a str, "userIdentity": null, a size that
\* is a str, and the two keys above
LoneRecords ==
  {PlainRecord, PyNone, PyStr("record"), NullIdentityRecord, TextSizeRecord,
   BareWordRecord, TarGzRecord}

Batches == UNION {[1..n -> RecordPool] : n \in 0..MaxBatch}

\* every record in which any subset of the twelve fields is absent and
\* every field that is present is well-formed
AbsenceRecords ==
  LET names == {Absent, PyStr("job-portal-dev-files")}
      keys == {Absent, PyStr("resumes/cv.DOCX")}
      sizes == {Absent, PyInt(<<0, 2>>)}
      buckets == {Absent} \cup {Bucket(n) : n \in names}
      objects == {Absent} \cup {Object(key, size) : key \in keys, size \in sizes}
      s3s == {Absent} \cup {S3Info(b, o) : b \in buckets, o \in objects}
      params == {Absent} \cup
                {RequestParameters(ip) : ip \in {Absent, PyStr("192.168.1.100")}}
      identities == {Absent} \cup
                    {UserIdentity(id) : id \in {Absent, PyStr("EXAMPLE123")}}
  IN  {Record(t, e, s3, rp, ui) :
         t \in {Absent, PyStr("2024-12-01T12:00:00.000Z")},
         e \in {Absent, PyStr("ObjectCreated:Put")},
         s3 \in s3s, rp \in params, ui \in identities}

\* events whose Records is no list of records, and an event that is no dict
OddEvents ==
  {Event(Absent), Event(PyNone), Event(PyInt(<<3>>)), Event(PyStr("ab")), PyNone}

Environments ==
  {[PROJECT_NAME |-> Absent, ENVIRONMENT |-> Absent],
   [PROJECT_NAME |-> PyStr("talent-hub"), ENVIRONMENT |-> PyStr("prod")]}

-----------------------------------------------------------------------------
(***************************************************************************)
(* Spec: one invocation of lambda_handler.                                 *)
(***************************************************************************)

FormatIdle ==
  /\ fs_arg = PyNone
  /\ fs_pc = "idle"
  /\ fs_size = PyNone
  /\ fs_i = 0
  /\ fs_ret = ""

CategorizeIdle ==
  /\ cat_calls = <<>>
  /\ cat_results = <<>>

HandlerIdle ==
  /\ environ = [PROJECT_NAME |-> Absent, ENVIRONMENT |-> Absent]
  /\ event = PyNone
  /\ pc = "idle"
  /\ project_name = ""
  /\ environment = ""
  /\ records = <<>>
  /\ idx = 0
  /\ log_entry = Unbound
  /\ processed_records = <<>>
  /\ response = Unbound
  /\ exception = ""
  /\ log = <<>>

RunIdle ==
  /\ calls = 1
  /\ inv = <<>>

CreateBucketIdle ==
  /\ cb_pc = "idle"
  /\ cb_bucket_name = ""
  /\ cb_exists = FALSE
  /\ cb_error = ""
  /\ cb_ret = ""
  /\ cb_out = <<>>

Init ==
  /\ FormatIdle
  /\ CategorizeIdle
  /\ RunIdle
  /\ CreateBucketIdle
  /\ \/ /\ event \in {Event(PyList(b)) : b \in Batches}
        /\ environ \in Environments
     \/ /\ event \in {Event(PyList(<<r>>)) : r \in AbsenceRecords \cup LoneRecords}
                      \cup OddEvents
        /\ environ = [PROJECT_NAME |-> Absent, ENVIRONMENT |-> Absent]
  /\ pc = "l33"
  /\ project_name = ""
  /\ environment = ""
  /\ records = <<>>
  /\ idx = 0
  /\ log_entry = Unbound
  /\ processed_records = <<>>
  /\ response = Unbound
  /\ exception = ""
  /\ log = <<>>

Next == HandlerEntry \/ ForEnter \/ ForEnterRaises \/ ForRecord \/ Respond

Spec == Init /\ [][Next]_vars

-----------------------------------------------------------------------------
(***************************************************************************)
(* SpecFormat: one call of format_size, statement by statement.            *)
(***************************************************************************)

DigitPool == {0, 1, 128, 384, 512, 640, 1023}

\* 1024567, 1152 (1.125 KB), 1408 (1.375 KB), 5 KB, 1000 B
ExampleSizes == {<<567, 1000>>, <<128, 1>>, <<384, 1>>, <<0, 5>>, <<1000>>}

SizeDigits ==
  {d \in UNION {[1..n -> DigitPool] : n \in 0..MaxDigits} :
     /\ d = <<>> \/ d[Len(d)] # 0
     /\ ExactlyRepresentable(d)} \cup ExampleSizes

FormatArgs == {PyInt(d) : d \in SizeDigits} \cup {PyNone, PyStr("1024")}

InitFormat ==
  /\ HandlerIdle
  /\ RunIdle
  /\ CreateBucketIdle
  /\ CategorizeIdle
  /\ fs_arg \in FormatArgs
  /\ fs_size = fs_arg
  /\ fs_pc = "l117"
  /\ fs_i = -1          \* i is not bound before line 121
  /\ fs_ret = ""

NextFormat == FsEntry \/ FsCompareRaises \/ FsLoopBody \/ FsReturn

SpecFormat == InitFormat /\ [][NextFormat]_vars

-----------------------------------------------------------------------------
(***************************************************************************)
(* SpecCategorize: categorize_file called on an extension and then on a    *)
(* re-casing of it.                                                        *)
(***************************************************************************)

\* every extension of the table, and extensions outside it
ExtensionPool ==
  UNION {{categories[c].extensions[j] : j \in 1..Len(categories[c].extensions)} :
           c \in 1..Len(categories)}
    \cup {"xyz", "unknown", "", "pdfx", "pd", "tar.gz", "other", "resume",
          U017F \o "vg", "x" \o U017F}

Recasings(e) == {e, lower(e), upper(e), capitalize(e), mixed_case(e)}

CategorizeCall ==
  /\ Len(cat_results) < Len(cat_calls)
  /\ cat_results' =
       Append(cat_results, categorize_file(cat_calls[Len(cat_results) + 1]))
  /\ UNCHANGED <<cat_calls, fs_vars, h_vars, run_vars, cb_vars>>

InitCategorize ==
  /\ HandlerIdle
  /\ RunIdle
  /\ CreateBucketIdle
  /\ FormatIdle
  /\ cat_calls \in {<<e, r>> : e \in ExtensionPool, r \in UNION {Recasings(x) : x \in ExtensionPool}}
  /\ cat_calls[2] \in Recasings(cat_calls[1])
  /\ cat_results = <<>>

NextCategorize == CategorizeCall

SpecCategorize == InitCategorize /\ [][NextCategorize]_vars

-----------------------------------------------------------------------------
(***************************************************************************)
(* SpecSequence: invocations of lambda_handler one after another in one    *)
(* process.  The module-level logger and os.environ live on between them.  *)
(***************************************************************************)

\* the most invocations of one process
MaxCalls == 2

SequenceRecords == {TestRecord, BareWordRecord, NullKeyRecord}

\* batches of up to two records, an event without Records, "Records": null,
\* and an event that is null
SequenceEvents ==
  {Event(PyList(b)) : b \in UNION {[1..n -> SequenceRecords] : n \in 0..2}}
    \cup {Event(Absent), Event(PyNone), PyNone}

\* the runtime calls lambda_handler again after the earlier call has ended.
\* The names of the new frame are unbound until lines 33-42 assign them; the
\* variables keep the values of the ended frame until then.
Invoke ==
  /\ pc \in {"returned", "raised"}
  /\ calls < MaxCalls
  /\ calls' = calls + 1
  /\ event' \in SequenceEvents
  /\ pc' = "l33"
  /\ exception' = ""
  /\ UNCHANGED <<environ, project_name, environment, records, idx, log_entry,
                 processed_records, response, log, inv, cat_vars, fs_vars,
                 cb_vars>>

InitSequence ==
  /\ FormatIdle
  /\ CategorizeIdle
  /\ RunIdle
  /\ CreateBucketIdle
  /\ event \in SequenceEvents
  /\ environ \in Environments
  /\ pc = "l33"
  /\ project_name = ""
  /\ environment = ""
  /\ records = <<>>
  /\ idx = 0
  /\ log_entry = Unbound
  /\ processed_records = <<>>
  /\ response = Unbound
  /\ exception = ""
  /\ log = <<>>

NextSequence ==
  HandlerEntry \/ ForEnter \/ ForEnterRaises \/ ForRecord \/ Respond \/ Invoke

SpecSequence == InitSequence /\ [][NextSequence]_vars

-----------------------------------------------------------------------------
(***************************************************************************)
(* SpecConcurrent: invocations of lambda_handler running side by side,     *)
(* their statements interleaved in any order.  Each invocation has its own *)
(* frame of locals, inv[i]; the lines it logs are kept with the frame (the *)
(* order in which the stream mixes lines of different invocations is left  *)
(* out).                                                                   *)
(***************************************************************************)

\* the number of invocations running side by side
MaxConcurrent == 2

ConcurrentRecords == {TestRecord, NullKeyRecord}

\* batches of up to two records, "Records": null, and an event that is null
ConcurrentEvents ==
  {Event(PyList(b)) : b \in UNION {[1..n -> ConcurrentRecords] : n \in 0..2}}
    \cup {Event(PyNone), PyNone}

\* the frame of an invocation about to execute line 33
NewFrame(e) ==
  [event |-> e, pc |-> "l33", project_name |-> "", environment |-> "",
   records |-> <<>>, idx |-> 0, processed_records |-> <<>>,
   response |-> Unbound, exception |-> "", emitted |-> <<>>]

\* a bug that has every invocation append to the list of the first one
list_of_first(i) == inv[1].processed_records

\* the list the name processed_records of invocation i is bound to
list_of(i) == inv[i].processed_records

\* lines 33-39, invocation i
HandlerEntryOf(i) ==
  /\ inv[i].pc = "l33"
  /\ LET project == environ_get("PROJECT_NAME", "job-portal")
     IN  inv' = [inv EXCEPT
           ![i].project_name = project,
           ![i].environment = environ_get("ENVIRONMENT", "dev"),
           ![i].emitted = logger_emit(@,
              << Info("[{}] S3 Upload Event Received", <<PyStr(project)>>),
                 Info("Full Event: {}", <<json_dumps(inv[i].event)>>) >>),
           ![i].processed_records = <<>>,
           ![i].pc = "l42"]
  /\ UNCHANGED <<calls, h_vars, cat_vars, fs_vars, cb_vars>>

\* line 42, invocation i enters the loop
ForEnterOf(i) ==
  /\ inv[i].pc = "l42"
  /\ IsDict(inv[i].event)
  /\ IsIterable(dict_get(inv[i].event, "Records", records_default))
  /\ inv' = [inv EXCEPT
       ![i].records = iteration_of(dict_get(inv[i].event, "Records",
                                            records_default)),
       ![i].idx = 0,
       ![i].pc = "loop"]
  /\ UNCHANGED <<calls, h_vars, cat_vars, fs_vars, cb_vars>>

\* line 42 raises in invocation i
ForEnterRaisesOf(i) ==
  /\ inv[i].pc = "l42"
  /\ \/ /\ ~IsDict(inv[i].event)
        /\ inv' = [inv EXCEPT ![i].exception = no_get_message(inv[i].event),
                              ![i].pc = "raised"]
     \/ /\ IsDict(inv[i].event)
        /\ ~IsIterable(dict_get(inv[i].event, "Records", records_default))
        /\ inv' = [inv EXCEPT
             ![i].exception =
                "'" \o TypeName(dict_get(inv[i].event, "Records", records_default))
                    \o "' object is not iterable",
             ![i].pc = "raised"]
  /\ UNCHANGED <<calls, h_vars, cat_vars, fs_vars, cb_vars>>

\* lines 42-92 for the next record of invocation i
ForRecordOf(i) ==
  /\ inv[i].pc = "loop"
  /\ inv[i].idx < Len(inv[i].records)
  /\ \E now \in NowValues :
       LET record == inv[i].records[inv[i].idx + 1]
           out == try_block(record, inv[i].project_name, inv[i].environment, now)
       IN  inv' = [inv EXCEPT
             ![i].emitted = logger_emit(logger_emit(@, out.lines),
                                        except_block(out.raised, record)),
             ![i].processed_records = append_entry(list_of(i), out.appended),
             ![i].idx = @ + 1]
  /\ UNCHANGED <<calls, h_vars, cat_vars, fs_vars, cb_vars>>

\* lines 94-104, invocation i
RespondOf(i) ==
  /\ inv[i].pc = "loop"
  /\ inv[i].idx = Len(inv[i].records)
  /\ LET answer == build_response(inv[i].processed_records)
     IN  inv' = [inv EXCEPT
           ![i].response = answer,
           ![i].emitted = logger_emit(@, <<Info("Lambda Response: {}",
                                              <<json_dumps(answer)>>)>>),
           ![i].pc = "returned"]
  /\ UNCHANGED <<calls, h_vars, cat_vars, fs_vars, cb_vars>>

InitConcurrent ==
  /\ FormatIdle
  /\ CategorizeIdle
  /\ HandlerIdle
  /\ CreateBucketIdle
  /\ calls = 1
  /\ inv \in [1..MaxConcurrent -> {NewFrame(e) : e \in ConcurrentEvents}]

NextConcurrent ==
  \E i \in DOMAIN inv :
    \/ HandlerEntryOf(i)
    \/ ForEnterOf(i)
    \/ ForEnterRaisesOf(i)
    \/ ForRecordOf(i)
    \/ RespondOf(i)

SpecConcurrent == InitConcurrent /\ [][NextConcurrent]_vars

-----------------------------------------------------------------------------
(***************************************************************************)
(* SpecCreateBucket: one call of create_bucket, lines 38-94 of             *)
(* src/boto3-scripts/s3_operations.py.  The three S3 API calls are the     *)
(* environment: each returns, raises botocore's ClientError with an error  *)
(* Code, or raises another exception (no credentials, no connection).      *)
(* A printed message is kept without its leading symbol.                   *)
(***************************************************************************)

REGION == "us-east-1"

\* bucket names, among them one as main builds it (line 312)
BucketNames ==
  {"job-portal-dev-files-k3x9q2ab", "job-portal-dev-files",
   "job-portal-dev-logs", "my-bucket", "Not_A_Valid_Name"}

\* the error Codes S3 may answer create_bucket with
CreateErrors ==
  {"BucketAlreadyOwnedByYou", "BucketAlreadyExists", "AccessDenied",
   "InvalidBucketName", "TooManyBuckets"}

\* the error Codes S3 may answer put_bucket_versioning and
\* put_bucket_tagging with
FollowUpErrors == {"AccessDenied", "OperationAborted", "ServiceUnavailable"}

Printed(text, args) == [text |-> text, args |-> args]

\* lines 52-60: s3_client.create_bucket and the message after it
CreateBucketCall ==
  /\ cb_pc = "l52"
  /\ \/ /\ cb_exists' = TRUE
        /\ cb_out' = Append(cb_out, Printed("Bucket '{}' created successfully!",
                                            <<cb_bucket_name>>))
        /\ cb_pc' = "l63"
        /\ UNCHANGED cb_error
     \/ /\ \E code \in CreateErrors :
             /\ code = "BucketAlreadyOwnedByYou" => cb_exists
             /\ code = "BucketAlreadyExists" => ~cb_exists
             /\ cb_error' = code
        /\ cb_pc' = "except"
        /\ UNCHANGED <<cb_exists, cb_out>>
     \/ /\ cb_pc' = "raised"
        /\ UNCHANGED <<cb_exists, cb_out, cb_error>>
  /\ UNCHANGED <<cb_bucket_name, cb_ret, cat_vars, fs_vars, h_vars, run_vars>>

\* lines 63-67: s3_client.put_bucket_versioning and the message after it
PutVersioningCall ==
  /\ cb_pc = "l63"
  /\ \/ /\ cb_out' = Append(cb_out, Printed("Versioning enabled for bucket '{}'",
                                            <<cb_bucket_name>>))
        /\ cb_pc' = "l70"
        /\ UNCHANGED cb_error
     \/ /\ cb_error' \in FollowUpErrors
        /\ cb_pc' = "except"
        /\ UNCHANGED cb_out
     \/ /\ cb_pc' = "raised"
        /\ UNCHANGED <<cb_out, cb_error>>
  /\ UNCHANGED <<cb_bucket_name, cb_exists, cb_ret, cat_vars, fs_vars, h_vars,
                 run_vars>>

\* lines 70-82: s3_client.put_bucket_tagging, the message after it, return True
PutTaggingCall ==
  /\ cb_pc = "l70"
  /\ \/ /\ cb_out' = Append(cb_out, Printed("Tags added to bucket '{}'",
                                            <<cb_bucket_name>>))
        /\ cb_ret' = "True"
        /\ cb_pc' = "returned"
        /\ UNCHANGED cb_error
     \/ /\ cb_error' \in FollowUpErrors
        /\ cb_pc' = "except"
        /\ UNCHANGED <<cb_out, cb_ret>>
     \/ /\ cb_pc' = "raised"
        /\ UNCHANGED <<cb_out, cb_error, cb_ret>>
  /\ UNCHANGED <<cb_bucket_name, cb_exists, cat_vars, fs_vars, h_vars, run_vars>>

\* lines 84-94: except ClientError, whichever of the three calls raised it
ClientErrorHandler ==
  /\ cb_pc = "except"
  /\ \/ /\ cb_error = "BucketAlreadyOwnedByYou"
        /\ cb_out' = Append(cb_out,
                            Printed("Bucket '{}' already exists and is owned by you.",
                                    <<cb_bucket_name>>))
        /\ cb_ret' = "True"
     \/ /\ cb_error = "BucketAlreadyExists"
        /\ cb_out' = Append(cb_out,
                            Printed("Bucket name '{}' is already taken globally.",
                                    <<cb_bucket_name>>))
        /\ cb_ret' = "False"
     \/ /\ cb_error \notin {"BucketAlreadyOwnedByYou", "BucketAlreadyExists"}
        /\ cb_out' = Append(cb_out, Printed("Error creating bucket: {}",
                                            <<cb_error>>))
        /\ cb_ret' = "False"
  /\ cb_pc' = "returned"
  /\ UNCHANGED <<cb_bucket_name, cb_exists, cb_error, cat_vars, fs_vars, h_vars,
                 run_vars>>

InitCreateBucket ==
  /\ FormatIdle
  /\ CategorizeIdle
  /\ HandlerIdle
  /\ RunIdle
  /\ cb_pc = "l52"
  /\ cb_bucket_name \in BucketNames
  /\ cb_exists \in BOOLEAN
  /\ cb_error = ""
  /\ cb_ret = ""
  /\ cb_out = <<>>

NextCreateBucket ==
  CreateBucketCall \/ PutVersioningCall \/ PutTaggingCall \/ ClientErrorHandler

SpecCreateBucket == InitCreateBucket /\ [][NextCreateBucket]_vars

-----------------------------------------------------------------------------
(***************************************************************************)
(* Properties of lambda_handler, checked under Spec.                       *)
(***************************************************************************)

\* the event carries a list of records
IsBatch == IsDict(event) /\ event.Records.k = "list"
Batch == event.Records.items

OptionalDict(v) == v.k \in {"absent", "dict"}

\* every field of the record is absent or of the type the handler expects
WellFormed(r) ==
  /\ IsDict(r)
  /\ OptionalDict(r.s3)
  /\ IsDict(r.s3) =>
       /\ OptionalDict(r.s3.bucket)
       /\ OptionalDict(r.s3.object)
       /\ IsDict(r.s3.object) =>
            /\ r.s3.object.key.k \in {"absent", "str"}
            /\ r.s3.object.size.k \in {"absent", "int", "float"}
  /\ OptionalDict(r.requestParameters)
  /\ OptionalDict(r.userIdentity)

\* the value at a path of keys, Absent when a key on the way is missing
ValueAt(r, a, b, c) ==
  IF ~IsDict(r[a]) THEN Absent
  ELSE IF c = "" THEN r[a][b]
  ELSE IF ~IsDict(r[a][b]) THEN Absent
  ELSE r[a][b][c]

OrUnknown(v) == IF v.k = "absent" THEN PyStr("Unknown") ELSE v

BucketOf(r) == OrUnknown(ValueAt(r, "s3", "bucket", "name"))
KeyOf(r) == OrUnknown(ValueAt(r, "s3", "object", "key"))

Body == response.body.json_text_of

ErrorLines == SelectSeq(log, LAMBDA line : line.level = "ERROR")

\* details holds the bucket and key of exactly the records rs, in order
DetailsAre(rs) ==
  /\ Len(Body.details) = Len(rs)
  /\ \A j \in 1..Len(rs) :
       /\ Body.details[j].bucket = BucketOf(rs[j])
       /\ Body.details[j].key = KeyOf(rs[j])

\* C1: a batch of N well-formed records returns records_processed = N and
\* N details entries, the i-th with the bucket and key of the i-th record.
C1_WellFormedBatchCounted ==
  (pc = "returned" /\ IsBatch /\ \A j \in 1..Len(Batch) : WellFormed(Batch[j]))
    => /\ Body.records_processed = Len(Batch)
       /\ DetailsAre(Batch)

C1_Witness ==
  /\ pc = "returned"
  /\ IsBatch
  /\ Batch = <<ArchiveRecord, TestRecord, EmptyRecord>>
  /\ Body.records_processed = 3

\* C2: with k malformed records among N, at any positions, the handler
\* returns status 200 and records_processed = N - k, details holds exactly
\* the well-formed records in input order, and each malformed record has an
\* error logged with its message and an error line holding the record.
C2_MalformedRecordsSkipped ==
  (pc = "returned" /\ IsBatch) =>
    LET good == SelectSeq(Batch, WellFormed)
        bad == SelectSeq(Batch, LAMBDA r : ~WellFormed(r))
    IN  /\ response.statusCode = 200
        /\ Body.records_processed = Len(Batch) - Len(bad)
        /\ DetailsAre(good)
        /\ Len(ErrorLines) = 2 * Len(bad)
        /\ \A j \in 1..Len(bad) :
             /\ ErrorLines[2 * j - 1].text = "Error processing record: {}"
             /\ ErrorLines[2 * j].text = "Record: {}"
             /\ ErrorLines[2 * j].args = <<json_dumps(bad[j])>>

C2_Witness ==
  /\ pc = "returned"
  /\ IsBatch
  /\ Batch = <<NullS3Record, TestRecord, ArchiveRecord>>
  /\ Body.records_processed = 2
  /\ Len(ErrorLines) = 2

\* C3: whatever the event, no exception reaches the caller of
\* lambda_handler.
C3_NoExceptionReachesCaller == pc # "raised"

\* C4: every response has statusCode 200 and the one fixed message, and
\* carries nothing but statusCode and a body of message, records_processed
\* and details.
C4_ResponseAlwaysSuccess ==
  pc = "returned" =>
    /\ DOMAIN response = {"statusCode", "body"}
    /\ response.statusCode = 200
    /\ DOMAIN Body = {"message", "records_processed", "details"}
    /\ Body.message = "S3 upload event(s) logged successfully"

C4_Witness ==
  /\ pc = "returned"
  /\ Len(records) = 3
  /\ processed_records = <<>>
  /\ response.statusCode = 200

\* C5: a record in which any subset of the twelve fields is absent is not
\* skipped and raises nothing: alone in a batch it yields one details entry
\* and no error line, every absent field takes its default (bucket, key,
\* event name, source IP and principal id 'Unknown', size 0 with readable
\* size '0 B', event time the current time) and every present field its value.
C5_AbsentFieldsDefaulted ==
  (pc = "returned" /\ IsBatch /\ Len(Batch) = 1 /\ WellFormed(Batch[1])) =>
    LET r == Batch[1]
        size == ValueAt(r, "s3", "object", "size")
        ip == ValueAt(r, "requestParameters", "sourceIPAddress", "")
        id == ValueAt(r, "userIdentity", "principalId", "")
    IN  /\ ErrorLines = <<>>
        /\ Len(Body.details) = 1
        /\ Body.details[1].bucket = BucketOf(r)
        /\ Body.details[1].key = KeyOf(r)
        /\ log_entry.bucket = BucketOf(r)
        /\ log_entry.object_key = KeyOf(r)
        /\ log_entry.object_size_bytes =
             (IF size.k = "absent" THEN PyInt(<<>>) ELSE size)
        /\ size.k = "absent" => log_entry.object_size_readable = PyStr("0 B")
        /\ log_entry.event_type = OrUnknown(r.eventName)
        /\ log_entry.source_ip = OrUnknown(ip)
        /\ log_entry.user_identity = OrUnknown(id)
        /\ IF r.eventTime.k = "absent"
           THEN log_entry.timestamp.k = "str" /\ log_entry.timestamp.s \in NowValues
           ELSE log_entry.timestamp = r.eventTime

C5_Witness ==
  /\ pc = "returned"
  /\ IsBatch
  /\ Batch = <<EmptyRecord>>
  /\ Body.details =
       <<[bucket |-> PyStr("Unknown"), key |-> PyStr("Unknown"), category |-> "other"]>>
  /\ log_entry.object_size_readable = PyStr("0 B")

\* C6: an event whose Records is empty, or that has no Records, returns
\* statusCode 200, records_processed 0 and details [], and logs no error.
C6_EmptyBatch ==
  (/\ pc \in {"returned", "raised"}
   /\ IsDict(event)
   /\ event.Records.k = "absent" \/ (IsBatch /\ Batch = <<>>))
    => /\ pc = "returned"
       /\ response.statusCode = 200
       /\ Body.records_processed = 0
       /\ Body.details = <<>>
       /\ ErrorLines = <<>>

C6_Witness ==
  /\ pc = "returned"
  /\ IsBatch
  /\ Batch = <<>>
  /\ Body.records_processed = 0

-----------------------------------------------------------------------------
(***************************************************************************)
(* Properties of format_size, checked under SpecFormat.                    *)
(***************************************************************************)

DecimalDigits == "0123456789"

\* the natural number a string of decimal digits writes, -1 if it is none
RECURSIVE ParseNat(_)
ParseNat(s) ==
  IF s = "" THEN -1
  ELSE LET d == PosIn(CharAt(s, Len(s)), DecimalDigits) - 1
           front == SubSeq(s, 1, Len(s) - 1)
       IN  IF d < 0 THEN -1
           ELSE IF front = "" THEN d
           ELSE IF ParseNat(front) < 0 THEN -1
           ELSE 10 * ParseNat(front) + d

FirstIndexOf(s, c) ==
  IF \E j \in 1..Len(s) : CharAt(s, j) = c
  THEN CHOOSE j \in 1..Len(s) :
         CharAt(s, j) = c /\ \A m \in 1..(j - 1) : CharAt(s, m) # c
  ELSE 0

\* the parts of "<whole>.<cents> <unit>"
WholePart(s) == SubSeq(s, 1, FirstIndexOf(s, ".") - 1)
CentsPart(s) == SubSeq(s, FirstIndexOf(s, ".") + 1, FirstIndexOf(s, " ") - 1)
UnitPart(s) == SubSeq(s, FirstIndexOf(s, " ") + 1, Len(s))

\* digits (least significant first) times a small factor, one digit longer
RECURSIVE TimesSmall(_, _, _)
TimesSmall(digits, factor, carry) ==
  IF digits = <<>> THEN <<carry>>
  ELSE LET t == Head(digits) * factor + carry
       IN  <<t % 1024>> \o TimesSmall(Tail(digits), factor, t \div 1024)

\* x <= y for digit sequences of one length, least significant first
RECURSIVE DigitsLeq(_, _)
DigitsLeq(x, y) ==
  IF x = <<>> THEN TRUE
  ELSE IF x[Len(x)] # y[Len(y)] THEN x[Len(x)] < y[Len(y)]
  ELSE DigitsLeq(SubSeq(x, 1, Len(x) - 1), SubSeq(y, 1, Len(y) - 1))

\* m * 1024^i, for a digit m
Shifted(m, i) == [j \in 1..(i + 1) |-> IF j = i + 1 THEN m ELSE 0]

\* the number of divisions by 1024 until the value is below 1024 or i = 4
Divisions(digits) == IF Len(digits) - 1 > 4 THEN 4 ELSE Len(digits) - 1

\* the string s writes b / 1024^i to the nearest hundredth (either one at
\* an exact tie), with the i-th unit, where i = Divisions(b)
WritesNearestHundredth(digits, s) ==
  LET i == Divisions(digits)
      low == SubSeq(digits, 1, i)
      high == DigitsValue(SubSeq(digits, i + 1, Len(digits)))
      whole == ParseNat(WholePart(s))
      cents == ParseNat(CentsPart(s))
      c == 100 * whole + cents - 100 * high
  IN  /\ FirstIndexOf(s, ".") > 1
      /\ whole >= 0
      /\ ToString(whole) = WholePart(s)
      /\ Len(CentsPart(s)) = 2
      /\ cents >= 0
      /\ UnitPart(s) = size_names[i + 1]
      /\ c \in 0..100
      /\ c > 0 => DigitsLeq(Shifted(2 * c - 1, i), TimesSmall(low, 200, 0))
      /\ DigitsLeq(TimesSmall(low, 200, 0), Shifted(2 * c + 1, i))

\* at an exact tie between two hundredths, s writes the even one
TieToEven(digits, s) ==
  LET i == Divisions(digits)
      low == SubSeq(digits, 1, i)
      high == DigitsValue(SubSeq(digits, i + 1, Len(digits)))
      c == 100 * ParseNat(WholePart(s)) + ParseNat(CentsPart(s)) - 100 * high
  IN  (\/ TimesSmall(low, 200, 0) = Shifted(2 * c + 1, i)
       \/ (c > 0 /\ TimesSmall(low, 200, 0) = Shifted(2 * c - 1, i)))
        => c % 2 = 0

Returned(arg, ret) == fs_pc = "done" /\ fs_arg = arg /\ fs_ret = ret

\* C7 as stated: for every integer b >= 0, format_size(0) is '0 B' and
\* otherwise the result is b / 1024^i rounded to two decimals, a space and
\* the i-th unit; format_size(1024) = '1.00 KB', format_size(1048576) =
\* '1.00 MB' and format_size(1024567) = '0.98 MB'.
C7_AsStated ==
  (fs_pc \in {"done", "TypeError", "IndexError"} /\ fs_arg.k = "int") =>
    /\ fs_pc = "done"
    /\ fs_arg.n = <<>> => fs_ret = "0 B"
    /\ fs_arg.n # <<>> => WritesNearestHundredth(fs_arg.n, fs_ret)
    /\ fs_arg = PyInt(<<0, 1>>) => fs_ret = "1.00 KB"
    /\ fs_arg = PyInt(<<0, 0, 1>>) => fs_ret = "1.00 MB"
    /\ fs_arg = PyInt(<<567, 1000>>) => fs_ret = "0.98 MB"

\* C7, amended: for every integer 0 <= b < 2^53, format_size(0) is '0 B' and
\* otherwise the result is b / 1024^i rounded to the nearest hundredth (an
\* exact tie to the even one), a space and the i-th unit; format_size(1024)
\* = '1.00 KB', format_size(1048576) = '1.00 MB' and format_size(1024567) =
\* '1000.55 KB'.
C7_FormatSizeReference ==
  (fs_pc \in {"done", "TypeError", "IndexError"} /\ fs_arg.k = "int") =>
    /\ fs_pc = "done"
    /\ fs_arg.n = <<>> => fs_ret = "0 B"
    /\ fs_arg.n # <<>> =>
         /\ WritesNearestHundredth(fs_arg.n, fs_ret)
         /\ TieToEven(fs_arg.n, fs_ret)
    /\ fs_arg = PyInt(<<0, 1>>) => fs_ret = "1.00 KB"
    /\ fs_arg = PyInt(<<0, 0, 1>>) => fs_ret = "1.00 MB"
    /\ fs_arg = PyInt(<<567, 1000>>) => fs_ret = "1000.55 KB"

C7_Witness == Returned(PyInt(<<567, 1000>>), "1000.55 KB")

\* C8: the unit index never exceeds 4; for every b >= 1024^4, also for
\* b >= 1024^5, the loop stops after exactly 4 divisions and the result
\* uses the unit TB, never an out-of-range unit.
C8_UnitIndexBounded ==
  /\ fs_i <= 4
  /\ fs_pc # "IndexError"
  /\ (fs_pc \in {"done", "TypeError"} /\ fs_arg.k = "int" /\ Len(fs_arg.n) >= 5) =>
       /\ fs_pc = "done"
       /\ fs_i = 4
       /\ UnitPart(fs_ret) = "TB"

C8_Witness ==
  /\ fs_pc = "done"
  /\ fs_arg = PyInt(<<0, 0, 0, 0, 0, 1>>)
  /\ fs_i = 4
  /\ fs_ret = "1024.00 TB"

-----------------------------------------------------------------------------
(***************************************************************************)
(* Properties of categorize_file, checked under SpecCategorize.            *)
(***************************************************************************)

\* the mapping as the specification lists it
ListedCategory(e) ==
  CASE e \in {"pdf", "doc", "docx", "txt", "rtf", "odt"} -> "resume"
    [] e \in {"jpg", "jpeg", "png", "gif", "webp", "svg", "bmp", "ico"} -> "image"
    [] e \in {"csv", "xlsx", "xls", "json", "xml", "yaml", "yml"} -> "data"
    [] e \in {"zip", "tar", "gz", "rar", "7z"} -> "archive"
    [] e \in {"mp4", "avi", "mov", "mkv", "webm"} -> "video"
    [] e \in {"mp3", "wav", "flac", "aac", "ogg"} -> "audio"
    [] OTHER -> "other"

\* C9: on a lower-cased extension categorize_file is the fixed mapping:
\* each listed extension maps to its category, every other one to 'other'.
C9_FixedMapping ==
  \A j \in 1..Len(cat_results) :
    cat_calls[j] \in ExtensionPool => cat_results[j] = ListedCategory(cat_calls[j])

C9_Witness ==
  /\ Len(cat_results) >= 1
  /\ cat_calls[1] = "yml"
  /\ cat_results[1] = "data"

\* C10: categorize_file returns the same category for an extension and for
\* every re-casing of it.
C10_CaseInsensitive ==
  Len(cat_results) = 2 => cat_results[1] = cat_results[2]

-----------------------------------------------------------------------------
(***************************************************************************)
(* Properties of the per-record processing of lambda_handler, checked      *)
(* under Spec.                                                             *)
(***************************************************************************)

\* the well-formed records of the batch, in order
GoodRecords == SelectSeq(Batch, WellFormed)

\* the log lines written with one format string, in order
LinesWith(text) == SelectSeq(log, LAMBDA line : line.text = text)

\* the position in the log of the j-th line written with a format string
NthLine(text, j) ==
  LET at == {p \in 1..Len(log) : log[p].text = text}
  IN  CHOOSE p \in at : Cardinality({q \in at : q <= p}) = j

\* the 'Size' line of the j-th record that reached its 'File Category' line,
\* three lines before it
SizeLineOf(j) == log[NthLine("File Category: {}", j) - 3]

DotPositions(s) == {j \in 1..Len(s) : CharAt(s, j) = "."}

\* the substring of s after its last '.'
AfterLastDot(s) ==
  LET last == CHOOSE j \in DotPositions(s) : \A m \in DotPositions(s) : m <= j
  IN  SubSeq(s, last + 1, Len(s))

\* the extension as the specification derives it from a key
DerivedExtension(key) ==
  IF DotPositions(key) = {} THEN "unknown" ELSE lower(AfterLastDot(key))

SizeOf(r) ==
  LET v == ValueAt(r, "s3", "object", "size")
  IN  IF v.k = "absent" THEN PyInt(<<>>) ELSE v

\* s is the readable size of an integer number of bytes
ReadableSize(size, s) ==
  IF size.n = <<>> THEN s = "0 B"
  ELSE WritesNearestHundredth(size.n, s) /\ TieToEven(size.n, s)

\* C11: for every record whose object key holds no '.', a record without a
\* key (defaulted to 'Unknown') included, the extension is the literal
\* 'unknown' and the category in details is 'other'.
C11_NoDotIsUnknownOther ==
  (pc = "returned" /\ IsBatch) =>
    LET extensions == LinesWith("File Extension: {}")
    IN  /\ Len(extensions) = Len(GoodRecords)
        /\ Len(Body.details) = Len(GoodRecords)
        /\ \A j \in 1..Len(GoodRecords) :
             DotPositions(KeyOf(GoodRecords[j]).s) = {} =>
               /\ extensions[j].args = <<PyStr("unknown")>>
               /\ Body.details[j].category = "other"

C11_Witness ==
  /\ pc = "returned"
  /\ IsBatch
  /\ Batch = <<BareWordRecord>>
  /\ Body.details = <<[bucket |-> PyStr("job-portal-dev-files"),
                       key |-> PyStr("pdf"), category |-> "other"]>>

\* every well-formed record has its details entry {bucket, key unchanged,
\* category of the lower-cased text after the key's last '.'} and its
\* readable size logged
RecordsLoggedAsDerived ==
  LET categorized == LinesWith("File Category: {}")
  IN  /\ Len(Body.details) = Len(GoodRecords)
      /\ Len(categorized) = Len(GoodRecords)
      /\ \A j \in 1..Len(GoodRecords) :
           LET r == GoodRecords[j]
           IN  /\ Body.details[j] =
                    [bucket |-> BucketOf(r), key |-> KeyOf(r),
                     category |-> ListedCategory(DerivedExtension(KeyOf(r).s))]
               /\ SizeLineOf(j).text = "Size: {} ({} bytes)"
               /\ SizeLineOf(j).args[1].k = "str"
               /\ ReadableSize(SizeOf(r), SizeLineOf(j).args[1].s)
               /\ SizeLineOf(j).args[2] = SizeOf(r)
               /\ KeyOf(r) = PyStr("a.tar.gz") =>
                    Body.details[j].category = "archive"

\* the logged readable size of every record equal to the test record
TestRecordLogged(readable) ==
  \A j \in 1..Len(GoodRecords) :
    GoodRecords[j] = TestRecord =>
      /\ Body.details[j].category = "resume"
      /\ SizeLineOf(j).args[1] = PyStr(readable)

\* C12 as stated: for every well-formed record the details entry is exactly
\* {bucket, key unchanged, category: categorize_file(lower-cased text after
\* the key's last '.')} and the logged readable size is format_size(size);
\* only the last dot segment decides ('a.tar.gz' is 'archive'); the record
\* (bucket 'job-portal-dev-files', key 'resumes/john_doe_resume.pdf', size
\* 1024567) has category 'resume' and logged size '0.98 MB'.
C12_AsStated ==
  (pc = "returned" /\ IsBatch) =>
    RecordsLoggedAsDerived /\ TestRecordLogged("0.98 MB")

\* C12, amended: as stated, except that the logged size of the record of
\* size 1024567 is '1000.55 KB'.
C12_DetailsAndSize ==
  (pc = "returned" /\ IsBatch) =>
    RecordsLoggedAsDerived /\ TestRecordLogged("1000.55 KB")

C12_Witness ==
  /\ pc = "returned"
  /\ IsBatch
  /\ Batch = <<TarGzRecord>>
  /\ Body.details = <<[bucket |-> PyStr("job-portal-dev-files"),
                       key |-> PyStr("a.tar.gz"), category |-> "archive"]>>
  /\ \E j \in 1..Len(log) : log[j] = Info("Size: {} ({} bytes)",
                                         <<PyStr("1.00 KB"), PyInt(<<0, 1>>)>>)

\* the twelve lines logged for the j-th record that reached its 'File
\* Category' line: from the banner of line 67 to the banner of line 82
LinesOfProcessed(j) ==
  LET p == NthLine("File Category: {}", j)
  IN  SubSeq(log, p - 9, p + 2)

\* the values a sequence of log lines carries
ValuesLogged(lines) ==
  UNION {{lines[q].args[a] : a \in 1..Len(lines[q].args)} : q \in 1..Len(lines)}

EventTimeOf(r) == r.eventTime
EventNameOf(r) == OrUnknown(r.eventName)
SourceIpOf(r) == OrUnknown(ValueAt(r, "requestParameters", "sourceIPAddress", ""))
PrincipalOf(r) == OrUnknown(ValueAt(r, "userIdentity", "principalId", ""))

\* C15: for every successfully processed record the log output produced
\* for it contains the event time, event name, bucket, object key, size in
\* bytes, readable size, source IP, principal id, file extension and file
\* category.
C15_AllFieldsLogged ==
  (pc = "returned" /\ IsBatch) =>
    \A j \in 1..Len(GoodRecords) :
      LET r == GoodRecords[j]
          logged == ValuesLogged(LinesOfProcessed(j))
      IN  /\ EventTimeOf(r).k # "absent" => EventTimeOf(r) \in logged
          /\ EventNameOf(r) \in logged
          /\ BucketOf(r) \in logged
          /\ KeyOf(r) \in logged
          /\ SizeOf(r) \in logged
          /\ \E v \in logged : v.k = "str" /\ ReadableSize(SizeOf(r), v.s)
          /\ SourceIpOf(r) \in logged
          /\ PrincipalOf(r) \in logged
          /\ PyStr(DerivedExtension(KeyOf(r).s)) \in logged
          /\ PyStr(Body.details[j].category) \in logged

\* t occurs in s
OccursIn(t, s) ==
  \E j \in 1..(Len(s) - Len(t) + 1) : SubSeq(s, j, j + Len(t) - 1) = t

\* some log line carries a str that holds t
LogShows(t) ==
  \E v \in ValuesLogged(log) :
    "k" \in DOMAIN v /\ v.k = "str" /\ OccursIn(t, v.s)

\* C16: in every invocation the project name and the environment name are
\* read from the process environment (defaults 'job-portal' and 'dev') and
\* both values appear verbatim in the log output of that invocation.
C16_ConfigurationLogged ==
  pc = "returned" =>
    /\ project_name = environ_get("PROJECT_NAME", "job-portal")
    /\ environment = environ_get("ENVIRONMENT", "dev")
    /\ LogShows(project_name)
    /\ LogShows(environment)

\* the format strings of the lines logged for a record (lines 67-82, 91-92)
RecordLineTexts ==
  {Banner.text, "S3 UPLOAD EVENT DETAILS", "Timestamp: {}", "Bucket: {}",
   "Object Key: {}", "Size: {} ({} bytes)", "Event Type: {}", "Source IP: {}",
   "File Category: {}", "File Extension: {}",
   "Error processing record: {}", "Record: {}"}

\* the lines a step adds to the log, when it only adds at the end
Emitted == SubSeq(log', Len(log) + 1, Len(log'))

\* a step only adds lines at the end of the log
LogGrows ==
  /\ Len(log') >= Len(log)
  /\ SubSeq(log', 1, Len(log)) = log

\* the lines are about the record r
LinesAbout(lines, r) ==
  \A q \in 1..Len(lines) :
    /\ lines[q].text \in RecordLineTexts
    /\ lines[q].text = "Record: {}" => lines[q].args = <<json_dumps(r)>>
    /\ lines[q].text = "Bucket: {}" => lines[q].args = <<BucketOf(r)>>
    /\ lines[q].text = "Object Key: {}" =>
         lines[q].args = <<OrUnknown(ValueAt(r, "s3", "object", "key"))>>

\* C18: within one invocation the 'event received' lines come first, every
\* log line of record i comes before any log line of record j for i < j,
\* and the response line comes last.
C18_LogOrder ==
  /\ [](pc \in {"l42", "loop", "returned", "raised"} =>
          /\ Len(log) >= 2
          /\ log[1].text = "[{}] S3 Upload Event Received"
          /\ log[2].text = "Full Event: {}"
          /\ \A q \in 3..Len(log) :
               log[q].text \notin {log[1].text, log[2].text})
  /\ [][/\ LogGrows
        /\ idx' = idx + 1 =>
             /\ Len(log) >= 2
             /\ LinesAbout(Emitted, records[idx + 1])
        /\ (idx' = idx /\ Len(log) >= 2) =>
             \A q \in 1..Len(Emitted) : Emitted[q].text \notin RecordLineTexts]_vars
  /\ [](pc = "returned" =>
          /\ idx = Len(records)
          /\ log[Len(log)].text = "Lambda Response: {}"
          /\ \A q \in 1..(Len(log) - 1) : log[q].text # "Lambda Response: {}")

C18_Witness ==
  /\ pc = "returned"
  /\ IsBatch
  /\ Batch = <<NullS3Record, TestRecord>>
  /\ Len(log) = 17
  /\ log[4] = Error("Record: {}", <<json_dumps(NullS3Record)>>)
  /\ log[8] = Info("Timestamp: {}", <<PyStr("2024-12-01T12:00:00.000Z")>>)
  /\ log[17].text = "Lambda Response: {}"

\* C19: error-level lines are logged exactly for failed records: processing
\* a failing record logs an error entry with the exception message and one
\* with the raw record, before the next record is processed; processing a
\* successful record logs no error-level line.
C19_ErrorsOnlyForFailures ==
  [][LET errors == SelectSeq(Emitted, LAMBDA line : line.level = "ERROR")
     IN  /\ LogGrows
         /\ idx' # idx + 1 => errors = <<>>
         /\ idx' = idx + 1 =>
              LET r == records[idx + 1]
              IN  IF WellFormed(r)
                  THEN /\ errors = <<>>
                       /\ Len(processed_records') = Len(processed_records) + 1
                  ELSE /\ processed_records' = processed_records
                       /\ Len(Emitted) >= 2
                       /\ errors = SubSeq(Emitted, Len(Emitted) - 1, Len(Emitted))
                       /\ errors[1].text = "Error processing record: {}"
                       /\ errors[1].args[1].k = "str"
                       /\ errors[1].args[1].s # ""
                       /\ errors[2] = Error("Record: {}", <<json_dumps(r)>>)]_vars

C19_Witness ==
  /\ pc = "loop"
  /\ IsBatch
  /\ Batch = <<NullKeyRecord, TestRecord>>
  /\ idx = 1
  /\ processed_records = <<>>
  /\ ErrorLines =
       << Error("Error processing record: {}",
                <<PyStr("argument of type 'NoneType' is not iterable")>>),
          Error("Record: {}", <<json_dumps(NullKeyRecord)>>) >>

\* the entry was made from the record
EntryOf(entry, r) ==
  /\ WellFormed(r)
  /\ entry.bucket = BucketOf(r)
  /\ entry.key = KeyOf(r)

\* the entries were made from distinct records of rs, in the order of rs
RECURSIVE MadeInOrderFrom(_, _)
MadeInOrderFrom(entries, rs) ==
  IF entries = <<>> THEN TRUE
  ELSE IF rs = <<>> THEN FALSE
  ELSE IF EntryOf(Head(entries), Head(rs))
       THEN MadeInOrderFrom(Tail(entries), Tail(rs))
       ELSE MadeInOrderFrom(entries, Tail(rs))

\* C20: after the loop has consumed k records, processed_records holds at
\* most k entries, made from distinct records among the first k in their
\* order; at return records_processed = len(details) <= the number of
\* input records.
C20_LoopInvariant ==
  /\ pc = "loop" =>
       /\ Len(processed_records) <= idx
       /\ MadeInOrderFrom(processed_records, SubSeq(records, 1, idx))
  /\ pc = "returned" =>
       /\ Body.records_processed = Len(Body.details)
       /\ Body.details = processed_records
       /\ Body.records_processed <= Len(records)
       /\ MadeInOrderFrom(Body.details, records)

C20_Witness ==
  /\ pc = "loop"
  /\ Len(records) = 3
  /\ idx = 2
  /\ records[1] = NullS3Record
  /\ Len(processed_records) = 1
  /\ EntryOf(processed_records[1], records[2])

\* the format strings of the detail lines of lines 68-81, each logged once
\* for a record
DetailLineTexts ==
  RecordLineTexts \ {Banner.text, "Error processing record: {}", "Record: {}"}

\* how many of the records the loop has consumed are not well-formed
FailedSoFar == Cardinality({j \in 1..idx : ~WellFormed(records[j])})

\* C21: a record whose processing fails leaves no partial output: it adds
\* no entry to details and none of the per-record detail log lines is
\* emitted for it, only the two error entries; this for every way a record
\* can fail, a size that is not a number and an object key that is not a
\* string included.
C21_NoPartialOutput ==
  pc \in {"loop", "returned"} =>
    /\ Len(processed_records) = idx - FailedSoFar
    /\ Len(ErrorLines) = 2 * FailedSoFar
    /\ \A text \in DetailLineTexts :
         Len(LinesWith(text)) = idx - FailedSoFar
    /\ Len(LinesWith(Banner.text)) = 3 * (idx - FailedSoFar)

-----------------------------------------------------------------------------
(***************************************************************************)
(* Properties of several invocations of lambda_handler.                    *)
(***************************************************************************)

\* the details entry a well-formed record is answered with
EntryFor(r) ==
  [bucket |-> BucketOf(r), key |-> KeyOf(r),
   category |-> ListedCategory(DerivedExtension(KeyOf(r).s))]

\* the response to an event, as a function of the event alone
ResponseTo(e) ==
  LET good == IF IsDict(e) /\ e.Records.k = "list"
              THEN SelectSeq(e.Records.items, WellFormed)
              ELSE <<>>
  IN  [statusCode |-> 200,
       body |-> [json_text_of |->
                   [message |-> "S3 upload event(s) logged successfully",
                    records_processed |-> Len(good),
                    details |-> [j \in 1..Len(good) |-> EntryFor(good[j])]]]]

\* the 'Lambda Response' lines of the invocations that have returned
ResponseLines == LinesWith("Lambda Response: {}")

\* C13: lambda_handler is stateless across invocations: the response to an
\* event is the same whatever invocations the process served before it, and
\* the same as when the invocation is the first and only one.
C13_ResponseOfEventAlone ==
  pc = "returned" => response = ResponseTo(event)

C13_Witness ==
  /\ calls = 2
  /\ pc = "returned"
  /\ event = Event(PyList(<<TestRecord>>))
  /\ Len(ResponseLines) = 2
  /\ ResponseLines[1].args[1].json_text_of.body.json_text_of.records_processed = 2
  /\ Body.records_processed = 1

\* C14: invocations on independent batches run side by side, their
\* per-record steps interleaved in any order, and each returns exactly the
\* response it would return on its own.
C14_ConcurrentResponses ==
  \A i \in DOMAIN inv :
    inv[i].pc = "returned" => inv[i].response = ResponseTo(inv[i].event)

C14_Witness ==
  /\ inv[1].event = Event(PyList(<<TestRecord, TestRecord>>))
  /\ inv[1].pc = "loop"
  /\ inv[1].idx = 1
  /\ inv[2].event = Event(PyList(<<NullKeyRecord, TestRecord>>))
  /\ inv[2].pc = "returned"
  /\ inv[2].response.body.json_text_of.records_processed = 1

-----------------------------------------------------------------------------
(***************************************************************************)
(* Properties of create_bucket, checked under SpecCreateBucket.            *)
(***************************************************************************)

\* the create-bucket API call returned: its message (line 60) was printed
CreateCallSucceeded ==
  \E q \in 1..Len(cb_out) : cb_out[q].text = "Bucket '{}' created successfully!"

\* C17: create_bucket returns True whenever the create-bucket API call
\* succeeds, whatever the outcome of the versioning and tagging calls that
\* follow it.
C17_TrueWhenCreated ==
  (cb_pc = "returned" /\ CreateCallSucceeded) => cb_ret = "True"

-----------------------------------------------------------------------------
(***************************************************************************)
(* A further property of format_size, checked under SpecFormat.            *)
(***************************************************************************)

\* 1 <= b < 1024^5, for a size written without leading zero digits
InUnitRange(digits) ==
  /\ digits # <<>>
  /\ digits[Len(digits)] # 0
  /\ Len(digits) <= 5

\* C22: for every integer size b with 1 <= b < 1024^5 the number format_size
\* prints, after rounding to two decimals, is at least 1.00 and strictly
\* below 1024.00: a size is never shown as '1024.00' of a smaller unit.
C22_PrintedBelow1024 ==
  (fs_pc \in {"done", "TypeError", "IndexError"}
     /\ fs_arg.k = "int" /\ InUnitRange(fs_arg.n)) =>
    /\ fs_pc = "done"
    /\ FirstIndexOf(fs_ret, ".") > 1
    /\ ParseNat(WholePart(fs_ret)) >= 1
    /\ ParseNat(WholePart(fs_ret)) < 1024

-----------------------------------------------------------------------------
(***************************************************************************)
(* A further property of categorize_file, checked under SpecCategorize.    *)
(***************************************************************************)

\* the extensions listed for the c-th category
ExtensionSet(c) ==
  {categories[c].extensions[j] : j \in 1..Len(categories[c].extensions)}

\* the categories whose list holds the lower-cased extension
MatchingCategories(e) ==
  {c \in 1..Len(categories) : lower(e) \in ExtensionSet(c)}

\* C23: the six extension sets of categorize_file are pairwise disjoint, so
\* every extension matches at most one category and the result does not
\* depend on the order in which the categories are checked.
C23_DisjointExtensionSets ==
  /\ Len(categories) = 6
  /\ \A a, b \in 1..Len(categories) :
       a # b => ExtensionSet(a) \cap ExtensionSet(b) = {}
  /\ \A j \in 1..Len(cat_results) :
       /\ Cardinality(MatchingCategories(cat_calls[j])) <= 1
       /\ \A c \in MatchingCategories(cat_calls[j]) :
            cat_results[j] = categories[c].category
       /\ MatchingCategories(cat_calls[j]) = {} => cat_results[j] = "other"

C23_Witness ==
  /\ cat_calls = <<"gz", "GZ">>
  /\ cat_results = <<"archive", "archive">>
  /\ MatchingCategories("GZ") = {4}

=============================================================================
